---- MODULE Spec2Model ----
(***************************************************************************)
(* The generational loop of moors' GeneticAlgorithm                        *)
(* (src/moors/src/algorithms/ga.rs): new, next, run, run_cancellable.      *)
(*                                                                         *)
(* An engine is the struct GeneticAlgorithm: population, context, rng and  *)
(* its operators.  The operators themselves (Initialization, Evolve,       *)
(* Evaluator, the survival operator, AlgorithmContext) live outside ga.rs; *)
(* they are modelled from their contracts, as deterministic functions of   *)
(* their input and of the values they draw from the seeded generator.      *)
(*                                                                         *)
(* Two engines built from the same arguments and the same seed exist side  *)
(* by side (Engines), so that two runs can be compared; Spec runs the      *)
(* first alone, SpecPair runs both.  The seeded generator is the sequence  *)
(* of values it yields: `stream` is the part of that sequence revealed so  *)
(* far, rng[e] the number of values engine e has consumed.                 *)
(*                                                                         *)
(* `verbose` only prints (ga.rs 152-154, 160-165, 175) and is left out.    *)
(***************************************************************************)
EXTENDS Integers, Sequences, FiniteSets

\* ------------------------------------------------------------------ bounds
MaxPop == 2         \* population_size ranges over 1..MaxPop
MaxOff == 2         \* num_offsprings ranges over 1..MaxOff
MaxIter == 2        \* num_iterations ranges over 0..MaxIter
MaxRuns == 2        \* calls of run / run_cancellable on one engine
NumGenes == 3       \* distinct decision vectors, 0..NumGenes-1

\* ------------------------------------------------------- program constants
NumVars == 3        \* .num_vars(3)
MaxAttempts == 200  \* the max_attempts handed to evolve

Engines == {1, 2}
Genes == 0 .. (NumGenes - 1)
NoGene == NumGenes              \* an evaluator that never fails
None == [none |-> TRUE]         \* Option::None
\* The values one operator call draws from the generator.
Draws == 0 .. 4

Min(a, b) == IF a < b THEN a ELSE b
Max(a, b) == IF a > b THEN a ELSE b

\* ----------------------------------------------------------- data model
\* A decision matrix: its rows (one decision vector each) and column count.
Matrix(rows, ncols) == [rows |-> rows, ncols |-> ncols]

\* fitness_sphere: row . row
fitness_sphere(g) == g * g

\* A Population: genes plus the fitness of each row, in row order.
Population(genes) ==
    [genes |-> genes.rows, ncols |-> genes.ncols,
     fitness |-> [i \in 1 .. Len(genes.rows) |-> fitness_sphere(genes.rows[i])]]

Ok(v) == [ok |-> TRUE, value |-> v]
Err(e) == [ok |-> FALSE, error |-> e]

\* concatenate(Axis(0), [a, b]): the rows of a, then the rows of b; fails
\* when the column counts differ.
concatenate(a, b) ==
    IF a.ncols = b.ncols THEN Ok(Matrix(a.rows \o b.rows, a.ncols))
    ELSE Err("ShapeError")

\* ------------------------------------------------ operators (contracts)
\* Evaluator::evaluate: pure; fails when the user's fitness function returns
\* a wrongly shaped result, which here it does on matrices holding the
\* decision vector badGene.
evaluate(badGene, genes) ==
    IF \E i \in 1 .. Len(genes.rows) : genes.rows[i] = badGene
    THEN Err("Evaluator")
    ELSE Ok(Population(genes))

\* The index of the best (lowest fitness, then lowest index) row among idx.
BestOf(pop, idx) ==
    CHOOSE i \in idx : \A j \in idx :
        \/ pop.fitness[i] < pop.fitness[j]
        \/ pop.fitness[i] = pop.fitness[j] /\ i <= j

RECURSIVE Ranked(_, _)
Ranked(pop, idx) ==
    IF idx = {} THEN <<>>
    ELSE LET b == BestOf(pop, idx) IN <<b>> \o Ranked(pop, idx \ {b})

\* SurvivalOperator::operate: the num_survive best rows, best first.
operate(pop, num_survive) ==
    LET order == Ranked(pop, 1 .. Len(pop.genes))
        n == Min(num_survive, Len(order))
    IN  [genes |-> [i \in 1 .. n |-> pop.genes[order[i]]],
         ncols |-> pop.ncols,
         fitness |-> [i \in 1 .. n |-> pop.fitness[order[i]]]]

\* Evolve::evolve: offspring decision vectors bred from ref_pop.  By the value
\* d drawn: 0, no offspring was accepted in max_attempts rounds; 1, another
\* failure of the pipeline; 2, an operator returned rows of the wrong width;
\* 3, num_offsprings children; 4, one child fewer (at least one).  Child i
\* varies parent i (cyclically) by d - 2.
evolve(ref_pop, num_offsprings, max_attempts, d) ==
    LET n == IF d = 4 THEN Max(1, num_offsprings - 1) ELSE num_offsprings
        parent(i) == ref_pop.genes[((i - 1) % Len(ref_pop.genes)) + 1]
        child(i) == (parent(i) + Max(1, d - 2)) % NumGenes
    IN  CASE d = 0 -> Err("EmptyMatingResult")
          [] d = 1 -> Err("Evolve")
          [] d = 2 -> Ok(Matrix([i \in 1 .. n |-> child(i)], ref_pop.ncols + 1))
          [] OTHER -> Ok(Matrix([i \in 1 .. n |-> child(i)], ref_pop.ncols))

\* Initialization::initialize: sample population_size decision vectors of
\* num_vars columns, evaluate them, shape them with the survival operator.
\* Drawing 0 is the sampling that leaves no usable individual.
initialize(badGene, context, d) ==
    LET sampled == Matrix([i \in 1 .. context.population_size |->
                              (d + i) % NumGenes], context.num_vars)
        evaluated == evaluate(badGene, sampled)
    IN  IF d = 0 \/ ~evaluated.ok THEN Err("Initialization")
        ELSE Ok(operate(evaluated.value, context.population_size))

\* AlgorithmContext::set_current_iteration
set_current_iteration(context, i) == [context EXCEPT !.current_iteration = i]

\* ------------------------------------------------------------------ state
VARIABLES
    calls,                 \* the calls the user may make on each engine
    runs_left,             \* how many more of them
    stream,                \* the seeded generator's values revealed so far
    \* struct GeneticAlgorithm
    population, context, evaluator, rng,
    \* the frame of run_cancellable and of next
    pc, entry, token, shared, callback, current_iter,
    offspring_genes, combined_genes, evaluated_population, next_result, result,
    \* history of the current call
    at_call, stored, observed, polled, started, completed, outcome,
    set_at, set_by, at_observe

structVars == <<population, context, evaluator, rng, stream>>
frameVars == <<pc, entry, token, shared, callback, current_iter,
               offspring_genes, combined_genes, evaluated_population,
               next_result, result>>
histVars == <<at_call, stored, observed, polled, started, completed,
              outcome, set_at, set_by, at_observe>>
vars == <<calls, runs_left, structVars, frameVars, histVars>>

\* The observers a caller may supply: none, one that only looks, and the
\* test's, which sets the cancellation flag once it is handed iteration >= m.
Callbacks ==
    {None, [kind |-> "noop"]} \cup
    {[kind |-> "cancel_at", m |-> m] : m \in 1 .. MaxIter}

Contexts ==
    [population_size : 1 .. MaxPop, num_offsprings : 1 .. MaxOff,
     num_vars : {NumVars}, num_iterations : 0 .. MaxIter,
     current_iteration : {0}]

\* A population handed to the constructor.
GivenPopulation(c) ==
    Population(Matrix([i \in 1 .. c.population_size |-> 0], c.num_vars))

\* GeneticAlgorithm::new: the fields are the arguments.  Both engines are
\* built from the same arguments and the same seed.
new(pop, ctx, bad) ==
    /\ stream = <<>>
    /\ population = [e \in Engines |-> pop]
    /\ context = [e \in Engines |-> ctx]
    /\ evaluator = [e \in Engines |-> bad]
    /\ rng = [e \in Engines |-> 0]
    /\ pc = [e \in Engines |-> "idle"]
    /\ entry = [e \in Engines |-> "none"]
    /\ token = [e \in Engines |-> FALSE]
    /\ shared = [e \in Engines |-> FALSE]
    /\ callback = [e \in Engines |-> None]
    /\ current_iter = [e \in Engines |-> 0]
    /\ offspring_genes = [e \in Engines |-> None]
    /\ combined_genes = [e \in Engines |-> None]
    /\ evaluated_population = [e \in Engines |-> None]
    /\ next_result = [e \in Engines |-> "none"]
    /\ result = [e \in Engines |-> "none"]
    /\ at_call = [e \in Engines |-> None]
    /\ stored = [e \in Engines |-> <<>>]
    /\ observed = [e \in Engines |-> <<>>]
    /\ polled = [e \in Engines |-> <<>>]
    /\ started = [e \in Engines |-> 0]
    /\ completed = [e \in Engines |-> 0]
    /\ outcome = [e \in Engines |-> "NotStarted"]
    /\ set_at = [e \in Engines |-> 0]
    /\ set_by = [e \in Engines |-> "none"]
    /\ at_observe = [e \in Engines |-> None]

\* The calls a user can make: run(), or run_cancellable with any observer.
Calls ==
    {[how |-> "run", cb |-> None]} \cup
    {[how |-> "run_cancellable", cb |-> cb] : cb \in Callbacks}

Built ==
    \E ctx \in Contexts, bad \in {NoGene, 2} :
        \E pop \in {None, GivenPopulation(ctx)} : new(pop, ctx, bad)

\* One engine, called in any way, MaxRuns times.
Init ==
    /\ Built
    /\ calls = [e \in Engines |-> IF e = 1 THEN Calls ELSE {}]
    /\ runs_left = [e \in Engines |-> IF e = 1 THEN MaxRuns ELSE 0]

\* One engine, called once in any way.
InitOnce ==
    /\ Built
    /\ calls = [e \in Engines |-> IF e = 1 THEN Calls ELSE {}]
    /\ runs_left = [e \in Engines |-> IF e = 1 THEN 1 ELSE 0]

\* Two engines built alike: the first is called once through run(), the
\* second once through run_cancellable without an observer.
InitPair ==
    /\ Built
    /\ calls = [e \in Engines |->
                   IF e = 1 THEN {[how |-> "run", cb |-> None]}
                   ELSE {[how |-> "run_cancellable", cb |-> None]}]
    /\ runs_left = [e \in Engines |-> 1]

\* Two engines built alike and called once through run_cancellable: the
\* first without an observer, the second with one that only looks.
InitObserver ==
    /\ Built
    /\ calls = [e \in Engines |->
                   IF e = 1 THEN {[how |-> "run_cancellable", cb |-> None]}
                   ELSE {[how |-> "run_cancellable",
                          cb |-> [kind |-> "noop"]]}]
    /\ runs_left = [e \in Engines |-> 1]

\* Two engines built alike, each called once through run_cancellable
\* without an observer, each with a controller of its own.
InitTwin ==
    /\ Built
    /\ calls = [e \in Engines |->
                   {[how |-> "run_cancellable", cb |-> None]}]
    /\ runs_left = [e \in Engines |-> 1]

\* rng draws d for engine e: the next value of the seeded sequence, revealed
\* now if no engine has drawn it before.
Draw(e, d) ==
    /\ IF rng[e] < Len(stream)
       THEN d = stream[rng[e] + 1] /\ stream' = stream
       ELSE stream' = Append(stream, d)
    /\ rng' = [rng EXCEPT ![e] = @ + 1]

Return(e, res, how) ==
    /\ pc' = [pc EXCEPT ![e] = "done"]
    /\ result' = [result EXCEPT ![e] = res]
    /\ outcome' = [outcome EXCEPT ![e] = how]

\* ----------------------------------------------------------------- calls
\* run_cancellable(token, callback) is entered: the frame is fresh.  `how` is
\* the entry point the caller used, `sh` whether a controller holds a clone
\* of the token.
run_cancellable_enter(e, how, tok, cb, sh) ==
    /\ [how |-> how, cb |-> cb] \in calls[e]
    /\ pc[e] \in {"idle", "done"}
    /\ runs_left[e] > 0
    /\ runs_left' = [runs_left EXCEPT ![e] = @ - 1]
    /\ pc' = [pc EXCEPT ![e] = "init"]
    /\ entry' = [entry EXCEPT ![e] = how]
    /\ token' = [token EXCEPT ![e] = tok]
    /\ shared' = [shared EXCEPT ![e] = sh]
    /\ callback' = [callback EXCEPT ![e] = cb]
    /\ current_iter' = [current_iter EXCEPT ![e] = 0]
    /\ offspring_genes' = [offspring_genes EXCEPT ![e] = None]
    /\ combined_genes' = [combined_genes EXCEPT ![e] = None]
    /\ evaluated_population' = [evaluated_population EXCEPT ![e] = None]
    /\ next_result' = [next_result EXCEPT ![e] = "none"]
    /\ result' = [result EXCEPT ![e] = "none"]
    /\ at_call' = [at_call EXCEPT ![e] =
           [population |-> population[e], context |-> context[e],
            rng |-> rng[e]]]
    /\ stored' = [stored EXCEPT ![e] = <<>>]
    /\ observed' = [observed EXCEPT ![e] = <<>>]
    /\ polled' = [polled EXCEPT ![e] = <<>>]
    /\ started' = [started EXCEPT ![e] = 0]
    /\ completed' = [completed EXCEPT ![e] = 0]
    /\ outcome' = [outcome EXCEPT ![e] = "Initializing"]
    /\ set_at' = [set_at EXCEPT ![e] = 0]
    /\ set_by' = [set_by EXCEPT ![e] = IF tok THEN "caller" ELSE "none"]
    /\ at_observe' = [at_observe EXCEPT ![e] = None]
    /\ UNCHANGED <<calls, structVars>>

\* run with the bug of creating its token set.
run_with_set_token(e) == run_cancellable_enter(e, "run", TRUE, None, FALSE)

\* run(): run_cancellable with a token of its own, false, and no callback.
run(e) == run_cancellable_enter(e, "run", FALSE, None, FALSE)

\* run_cancellable called by the user, with a token a controller may hold
\* (already set or not) and any observer.
run_cancellable(e) ==
    \E tok \in BOOLEAN, cb \in Callbacks :
        run_cancellable_enter(e, "run_cancellable", tok, cb, TRUE)

\* The controller thread: token.store(true), at any moment of the run.
controller_store(e) ==
    /\ shared[e]
    /\ pc[e] \notin {"idle", "done", "panicked"}
    /\ ~token[e]
    /\ token' = [token EXCEPT ![e] = TRUE]
    /\ set_at' = [set_at EXCEPT ![e] = completed[e]]
    /\ set_by' = [set_by EXCEPT ![e] = "controller"]
    /\ UNCHANGED <<calls, runs_left, structVars, pc, entry, shared, callback,
                   current_iter, offspring_genes, combined_genes,
                   evaluated_population, next_result, result, at_call,
                   stored, observed, polled, started, completed, outcome,
                   at_observe>>

\* ------------------------------------------------------- run_cancellable
\* What the caller can see of engine e.
Snapshot(e) ==
    [population |-> population[e], context |-> context[e], rng |-> rng[e],
     stored |-> stored[e], observed |-> observed[e], started |-> started[e]]

\* init_err with the bug of dropping the stored population on failure.
init_err_clears(e, err) ==
    /\ Return(e, err, "Failed")
    /\ population' = [population EXCEPT ![e] = None]
    /\ UNCHANGED <<stored, context>>

\* Initialization::initialize(...)? failed: the error is returned.
init_err(e, err) ==
    /\ Return(e, err, "Failed")
    /\ UNCHANGED <<population, stored, context>>

\* init_ok with the bug of keeping a population the engine already holds.
init_ok_keeps_existing(e, initial_population) ==
    LET kept == IF population[e] = None THEN initial_population
                ELSE population[e]
    IN  /\ population' = [population EXCEPT ![e] = kept]
        /\ stored' = [stored EXCEPT ![e] = <<kept>>]
        /\ pc' = [pc EXCEPT ![e] = "loop"]
        /\ outcome' = [outcome EXCEPT ![e] = "Stepping"]
        /\ UNCHANGED <<result, context>>

\* init_ok with the bug of starting the context's iteration count afresh.
init_ok_resets_iteration(e, initial_population) ==
    /\ population' = [population EXCEPT ![e] = initial_population]
    /\ stored' = [stored EXCEPT ![e] = <<initial_population>>]
    /\ pc' = [pc EXCEPT ![e] = "loop"]
    /\ outcome' = [outcome EXCEPT ![e] = "Stepping"]
    /\ context' = [context EXCEPT ![e] = set_current_iteration(@, 0)]
    /\ UNCHANGED result

\* self.population = Some(initial_population)
init_ok(e, initial_population) ==
    /\ population' = [population EXCEPT ![e] = initial_population]
    /\ stored' = [stored EXCEPT ![e] = <<initial_population>>]
    /\ pc' = [pc EXCEPT ![e] = "loop"]
    /\ outcome' = [outcome EXCEPT ![e] = "Stepping"]
    /\ UNCHANGED <<result, context>>

initialize_population(e) ==
    /\ pc[e] = "init"
    /\ \E d \in Draws :
        /\ Draw(e, d)
        /\ LET r == initialize(evaluator[e], context[e], d) IN
           IF r.ok THEN init_ok(e, r.value) ELSE init_err(e, r.error)
    /\ UNCHANGED <<calls, runs_left, evaluator, entry, token, shared,
                   callback, current_iter, offspring_genes, combined_genes,
                   evaluated_population, next_result, at_call, observed,
                   polled, started, completed, set_at, set_by, at_observe>>

\* token_load with the bug of reading a flag nobody sets.
token_load_stale(e) == FALSE

\* token.load(Ordering::Relaxed)
token_load(e) == token[e]

\* loop_poll with the bug of waiting for the flag: the pass does not go on
\* while the flag is clear.
loop_poll_waits(e, flag) ==
    IF flag
    THEN /\ polled' = [polled EXCEPT ![e] = Append(@, flag)]
         /\ Return(e, "Ok", "Cancelled")
         /\ at_observe' = [at_observe EXCEPT ![e] = Snapshot(e)]
         /\ UNCHANGED started
    ELSE UNCHANGED <<pc, polled, started, result, outcome, at_observe>>

\* loop_poll with the bug of not leaving the loop on a set flag.
loop_poll_no_break(e, flag) ==
    /\ polled' = [polled EXCEPT ![e] = Append(@, flag)]
    /\ pc' = [pc EXCEPT ![e] = "evolve"]
    /\ started' = [started EXCEPT ![e] = @ + 1]
    /\ UNCHANGED <<result, outcome, at_observe>>

\* if token.load(..) { break; }  else the body of the loop: self.next()
loop_poll(e, flag) ==
    /\ polled' = [polled EXCEPT ![e] = Append(@, flag)]
    /\ IF flag
       THEN /\ Return(e, "Ok", "Cancelled")
            /\ at_observe' = [at_observe EXCEPT ![e] = Snapshot(e)]
            /\ UNCHANGED started
       ELSE /\ pc' = [pc EXCEPT ![e] = "evolve"]
            /\ started' = [started EXCEPT ![e] = @ + 1]
            /\ UNCHANGED <<result, outcome, at_observe>>

\* loop_top with the bug of an inclusive range, 0..=num_iterations.
loop_top_inclusive(e) ==
    /\ pc[e] = "loop"
    /\ IF current_iter[e] > context[e].num_iterations
       THEN /\ Return(e, "Ok", "Completed")
            /\ UNCHANGED <<polled, started, at_observe>>
       ELSE loop_poll(e, token_load(e))
    /\ UNCHANGED <<calls, runs_left, structVars, entry, token, shared,
                   callback, current_iter, offspring_genes, combined_genes,
                   evaluated_population, next_result, at_call, stored,
                   observed, completed, set_at, set_by>>

\* for current_iter in 0..self.context.num_iterations { .. }  Ok(())
loop_top(e) ==
    /\ pc[e] = "loop"
    /\ IF current_iter[e] >= context[e].num_iterations
       THEN /\ Return(e, "Ok", "Completed")
            /\ UNCHANGED <<polled, started, at_observe>>
       ELSE loop_poll(e, token_load(e))
    /\ UNCHANGED <<calls, runs_left, structVars, entry, token, shared,
                   callback, current_iter, offspring_genes, combined_genes,
                   evaluated_population, next_result, at_call, stored,
                   observed, completed, set_at, set_by>>

\* evolve_rng with the bug of handing evolve a generator seeded from
\* entropy instead of the engine's own.
evolve_rng_from_entropy(e, d) ==
    /\ rng' = [rng EXCEPT ![e] = @ + 1]
    /\ stream' = IF rng[e] < Len(stream) THEN stream ELSE Append(stream, d)

\* &mut self.rng, the generator evolve draws from
evolve_rng(e, d) == Draw(e, d)

\* next(): self.evolve.evolve(ref_pop, num_offsprings, 200, rng)
\*             .map_err(Into::into)?
next_evolve(e) ==
    /\ pc[e] = "evolve"
    /\ \E d \in Draws :
        /\ evolve_rng(e, d)
        /\ LET r == evolve(population[e], context[e].num_offsprings,
                           MaxAttempts, d) IN
           IF r.ok
           THEN /\ offspring_genes' = [offspring_genes EXCEPT ![e] = r.value]
                /\ pc' = [pc EXCEPT ![e] = "evaluate"]
                /\ next_result' = [next_result EXCEPT ![e] = "none"]
           ELSE /\ next_result' = [next_result EXCEPT ![e] = r.error]
                /\ pc' = [pc EXCEPT ![e] = "match"]
                /\ offspring_genes' = [offspring_genes EXCEPT ![e] = None]
    /\ combined_genes' = [combined_genes EXCEPT ![e] = None]
    /\ evaluated_population' = [evaluated_population EXCEPT ![e] = None]
    /\ UNCHANGED <<calls, runs_left, population, context, evaluator, entry,
                   token, shared, callback, current_iter, result, histVars>>

\* A panic unwinds out of run_cancellable: no value is returned.
Panic(e, what) ==
    /\ pc' = [pc EXCEPT ![e] = "panicked"]
    /\ result' = [result EXCEPT ![e] = what]
    /\ outcome' = [outcome EXCEPT ![e] = "Panicked"]

\* assert_eq_ncols with the assertion left out.
assert_eq_ncols_skipped(offspring, c) == TRUE

\* assert_eq!(offspring_genes.ncols(), self.context.num_vars, ..) passes
assert_eq_ncols(offspring, c) == offspring.ncols = c.num_vars

\* combine with the bug of putting the offspring rows first.
combine_offspring_first(ref_pop, offspring) ==
    concatenate(offspring, Matrix(ref_pop.genes, ref_pop.ncols))

\* combine with the bug of leaving the current population out.
combine_offspring_only(ref_pop, offspring) == Ok(offspring)

\* concatenate(Axis(0), &[ref_pop.genes.view(), offspring_genes.view()])
combine(ref_pop, offspring) ==
    concatenate(Matrix(ref_pop.genes, ref_pop.ncols), offspring)

\* next(): the assertion, .expect(..) on the concatenation, and
\*         self.evaluator.evaluate(combined_genes)?
next_evaluate(e) ==
    /\ pc[e] = "evaluate"
    /\ LET combined == combine(population[e], offspring_genes[e]) IN
       IF ~assert_eq_ncols(offspring_genes[e], context[e])
       THEN /\ Panic(e, "assert_eq")
            /\ UNCHANGED <<combined_genes, evaluated_population, next_result>>
       ELSE IF ~combined.ok
       THEN /\ Panic(e, "expect")
            /\ UNCHANGED <<combined_genes, evaluated_population, next_result>>
       ELSE LET r == evaluate(evaluator[e], combined.value) IN
            /\ combined_genes' = [combined_genes EXCEPT ![e] = combined.value]
            /\ IF r.ok
               THEN /\ evaluated_population' =
                           [evaluated_population EXCEPT ![e] = r.value]
                    /\ pc' = [pc EXCEPT ![e] = "survive"]
                    /\ UNCHANGED next_result
               ELSE /\ next_result' = [next_result EXCEPT ![e] = r.error]
                    /\ pc' = [pc EXCEPT ![e] = "match"]
                    /\ UNCHANGED evaluated_population
            /\ UNCHANGED <<result, outcome>>
    /\ UNCHANGED <<calls, runs_left, structVars, entry, token, shared,
                   callback, current_iter, offspring_genes, at_call, stored,
                   observed, polled, started, completed, set_at, set_by,
                   at_observe>>

\* num_survive with the bug of asking for num_offsprings survivors.
num_survive_offsprings(c) == c.num_offsprings

\* The number of survivors next() asks the survival operator for:
\* self.context.population_size
num_survive(c) == c.population_size

\* next(): survivors = self.survivor.operate(evaluated, population_size, rng);
\*         self.population = Some(survivors); Ok(())
next_survive(e) ==
    /\ pc[e] = "survive"
    /\ LET survivors == operate(evaluated_population[e],
                                num_survive(context[e])) IN
        /\ population' = [population EXCEPT ![e] = survivors]
        /\ stored' = [stored EXCEPT ![e] = Append(@, survivors)]
    /\ completed' = [completed EXCEPT ![e] = @ + 1]
    /\ next_result' = [next_result EXCEPT ![e] = "Ok"]
    /\ pc' = [pc EXCEPT ![e] = "match"]
    /\ UNCHANGED <<calls, runs_left, context, evaluator, rng, stream, entry,
                   token, shared, callback, current_iter, offspring_genes,
                   combined_genes, evaluated_population, result, at_call,
                   observed, polled, started, outcome, set_at, set_by,
                   at_observe>>

\* Ok(()) => { .. callback .. }
match_ok(e) ==
    /\ pc' = [pc EXCEPT ![e] = "callback"]
    /\ UNCHANGED <<result, outcome, context>>

\* match_empty_mating with the bug of treating it like any other error.
match_empty_mating_fatal(e) ==
    /\ Return(e, next_result[e], "Failed")
    /\ UNCHANGED context

\* Err(AlgorithmError::Evolve(err @ EvolveError::EmptyMatingResult)) => break
match_empty_mating(e) ==
    /\ Return(e, "Ok", "EarlyStopped")
    /\ UNCHANGED context

\* match_err with the bug of recording the failed generation's index before
\* returning.
match_err_recorded(e) ==
    /\ Return(e, next_result[e], "Failed")
    /\ context' = [context EXCEPT ![e] =
                      set_current_iteration(@, current_iter[e])]

\* match_err with the bug of running the generation again.
match_err_retry(e) ==
    /\ pc' = [pc EXCEPT ![e] = "evolve"]
    /\ UNCHANGED <<result, outcome, context>>

\* Err(e) => return Err(e)
match_err(e) ==
    /\ Return(e, next_result[e], "Failed")
    /\ UNCHANGED context

\* match self.next() { .. }
match_next(e) ==
    /\ pc[e] = "match"
    /\ CASE next_result[e] = "Ok" -> match_ok(e)
         [] next_result[e] = "EmptyMatingResult" -> match_empty_mating(e)
         [] OTHER -> match_err(e)
    /\ UNCHANGED <<calls, runs_left, population, evaluator, rng, stream,
                   entry, token, shared, callback, current_iter,
                   offspring_genes, combined_genes, evaluated_population,
                   next_result, at_call, stored, observed, polled, started,
                   completed, set_at, set_by, at_observe>>

\* IterationData with the bug of reporting the loop index itself.
IterationData_loop_index(e) ==
    [iteration |-> current_iter[e], population |-> population[e]]

\* IterationData { iteration: current_iter + 1, population: &self.population }
IterationData(e) ==
    [iteration |-> current_iter[e] + 1, population |-> population[e]]

\* if let Some(cb) = &mut callback { cb(data) }.  The test's callback stores
\* true into the token once data.iteration >= m.
invoke_callback(e) ==
    /\ pc[e] = "callback"
    /\ IF callback[e] = None
       THEN UNCHANGED <<observed, token, set_at, set_by>>
       ELSE LET data == IterationData(e) IN
            /\ observed' = [observed EXCEPT ![e] = Append(@, data)]
            /\ IF /\ callback[e].kind = "cancel_at"
                  /\ data.iteration >= callback[e].m
                  /\ ~token[e]
               THEN /\ token' = [token EXCEPT ![e] = TRUE]
                    /\ set_at' = [set_at EXCEPT ![e] = completed[e]]
                    /\ set_by' = [set_by EXCEPT ![e] = "observer"]
               ELSE UNCHANGED <<token, set_at, set_by>>
    /\ pc' = [pc EXCEPT ![e] = "record"]
    /\ UNCHANGED <<calls, runs_left, structVars, entry, shared, callback,
                   current_iter, offspring_genes, combined_genes,
                   evaluated_population, next_result, result, at_call, stored,
                   polled, started, completed, outcome, at_observe>>

\* record_iteration with the bug of writing the number of completed
\* generations, current_iter + 1.
record_iteration_one_based(e) ==
    /\ pc[e] = "record"
    /\ context' = [context EXCEPT ![e] =
                      set_current_iteration(@, current_iter[e] + 1)]
    /\ current_iter' = [current_iter EXCEPT ![e] = @ + 1]
    /\ pc' = [pc EXCEPT ![e] = "loop"]
    /\ UNCHANGED <<calls, runs_left, population, evaluator, rng, stream,
                   entry, token, shared, callback, offspring_genes,
                   combined_genes, evaluated_population, next_result, result,
                   histVars>>

\* record_iteration with the bug of writing the iteration only when an
\* observer was given (the write moved into the if-let of the callback).
record_iteration_if_observed(e) ==
    /\ pc[e] = "record"
    /\ context' = [context EXCEPT ![e] =
                      IF callback[e] = None THEN @
                      ELSE set_current_iteration(@, current_iter[e])]
    /\ current_iter' = [current_iter EXCEPT ![e] = @ + 1]
    /\ pc' = [pc EXCEPT ![e] = "loop"]
    /\ UNCHANGED <<calls, runs_left, population, evaluator, rng, stream,
                   entry, token, shared, callback, offspring_genes,
                   combined_genes, evaluated_population, next_result, result,
                   histVars>>

\* self.context.set_current_iteration(current_iter); and the loop's step.
record_iteration(e) ==
    /\ pc[e] = "record"
    /\ context' = [context EXCEPT ![e] =
                      set_current_iteration(@, current_iter[e])]
    /\ current_iter' = [current_iter EXCEPT ![e] = @ + 1]
    /\ pc' = [pc EXCEPT ![e] = "loop"]
    /\ UNCHANGED <<calls, runs_left, population, evaluator, rng, stream,
                   entry, token, shared, callback, offspring_genes,
                   combined_genes, evaluated_population, next_result, result,
                   histVars>>

Next ==
    \E e \in Engines :
        \/ run(e)
        \/ run_cancellable(e)
        \/ controller_store(e)
        \/ initialize_population(e)
        \/ loop_top(e)
        \/ next_evolve(e)
        \/ next_evaluate(e)
        \/ next_survive(e)
        \/ match_next(e)
        \/ invoke_callback(e)
        \/ record_iteration(e)

Spec == Init /\ [][Next]_vars

SpecPair == InitPair /\ [][Next]_vars

SpecObserver == InitObserver /\ [][Next]_vars

SpecTwin == InitTwin /\ [][Next]_vars

\* The steps of the engine's own thread inside a call.  Every operator and
\* observer call returns, so a step that can be taken is taken; nothing is
\* assumed of the caller or of the controller.
EngineStep(e) ==
    \/ initialize_population(e)
    \/ loop_top(e)
    \/ next_evolve(e)
    \/ next_evaluate(e)
    \/ next_survive(e)
    \/ match_next(e)
    \/ invoke_callback(e)
    \/ record_iteration(e)

SpecLive ==
    InitOnce /\ [][Next]_vars /\ \A e \in Engines : WF_vars(EngineStep(e))

\* ================================================================ claims
Running(e) == pc[e] \notin {"idle", "done", "panicked"}

\* C1: the flag is polled at the top of every iteration, before any
\* computation: every generation started follows a poll that read the flag
\* clear, and once the flag is read set no further poll is made, the call has
\* returned Ok, and population, context, rng, the generations started and the
\* observer's calls are what they were at that poll.
C1_SetFlagStopsBeforeAnyComputation ==
    \A e \in Engines :
        LET n == Len(polled[e]) IN
        /\ \A i \in 1 .. (n - 1) : ~polled[e][i]
        /\ started[e] = Cardinality({i \in 1 .. n : ~polled[e][i]})
        /\ (n > 0 /\ polled[e][n]) =>
               /\ pc[e] = "done"
               /\ result[e] = "Ok"
               /\ at_observe[e] = Snapshot(e)

\* The flag is read set after a generation completed and was observed.
C1_Witness ==
    \E e \in Engines :
        /\ Len(polled[e]) >= 2
        /\ polled[e][Len(polled[e])]
        /\ pc[e] = "done"
        /\ Len(observed[e]) >= 1

\* C2: once the flag is set with k generations completed, at most the
\* generation in flight completes (completed <= k+1) and none starts after
\* it; when the engine has observed the flag, current_iteration is what it
\* was at that poll, and it is at most k if it was written in this call.
C2_StopsWithinOneGeneration ==
    \A e \in Engines :
        token[e] =>
            /\ completed[e] <= set_at[e] + 1
            /\ started[e] <= set_at[e] + 1
            /\ (outcome[e] = "Cancelled") =>
                   /\ pc[e] = "done"
                   /\ context[e].current_iteration =
                          at_observe[e].context.current_iteration
                   /\ completed[e] > 0 =>
                          context[e].current_iteration <= set_at[e]
                   /\ completed[e] = 0 =>
                          context[e].current_iteration =
                              at_call[e].context.current_iteration

\* The controller sets the flag while the first generation is in flight:
\* that generation completes, the second never starts.
C2_Witness ==
    \E e \in Engines :
        /\ outcome[e] = "Cancelled"
        /\ callback[e] = None
        /\ set_at[e] = 0
        /\ completed[e] = 1
        /\ context[e].num_iterations >= 2

\* C3: when evolve fails with EmptyMatingResult the loop is left at that
\* generation and the call returns Ok, before num_iterations generations
\* completed.
C3_EmptyMatingStopsWithOk ==
    \A e \in Engines :
        next_result[e] = "EmptyMatingResult" =>
            /\ pc[e] \in {"match", "done"}
            /\ pc[e] = "done" =>
                   /\ result[e] = "Ok"
                   /\ outcome[e] = "EarlyStopped"
                   /\ completed[e] < context[e].num_iterations
                   /\ started[e] = completed[e] + 1

\* The second generation found no offspring and the call has returned.
C3_Witness ==
    \E e \in Engines :
        /\ next_result[e] = "EmptyMatingResult"
        /\ pc[e] = "done"
        /\ completed[e] = 1

\* C4: an error of a generation other than EmptyMatingResult is returned as
\* it is, at once: no generation starts after the failed one, which is not
\* run again.
C4_OtherErrorsReturned ==
    \A e \in Engines :
        next_result[e] \in {"Evolve", "Evaluator"} =>
            /\ pc[e] \in {"match", "done"}
            /\ started[e] = completed[e] + 1
            /\ pc[e] = "done" =>
                   /\ result[e] = next_result[e]
                   /\ outcome[e] = "Failed"

\* The evaluation of the second generation failed and the call has returned.
C4_Witness ==
    \E e \in Engines :
        /\ next_result[e] = "Evaluator"
        /\ pc[e] = "done"
        /\ completed[e] = 1

\* C5: when Initialization fails the call returns the error with the flag
\* never polled, no generation started, the observer never invoked, and the
\* stored population and the context as they were at the call.
C5_InitializationFailureLeavesEngine ==
    \A e \in Engines :
        result[e] = "Initialization" =>
            /\ pc[e] = "done"
            /\ polled[e] = <<>>
            /\ started[e] = 0
            /\ completed[e] = 0
            /\ observed[e] = <<>>
            /\ stored[e] = <<>>
            /\ population[e] = at_call[e].population
            /\ context[e] = at_call[e].context

\* Initialization failed on an engine that held a population.
C5_Witness ==
    \E e \in Engines :
        /\ result[e] = "Initialization"
        /\ population[e] # None

\* C6: a supplied observer is invoked once per completed generation, before
\* the next one begins, and for no other; its i-th call carries iteration i
\* and the population that generation stored.  Without an observer nothing is
\* observed.
C6_ObserverOncePerCompletedGeneration ==
    \A e \in Engines :
        LET pending == IF pc[e] \in {"match", "callback"}
                          /\ next_result[e] = "Ok" THEN 1 ELSE 0
        IN  /\ callback[e] = None => observed[e] = <<>>
            /\ callback[e] # None => Len(observed[e]) = completed[e] - pending
            /\ \A i \in 1 .. Len(observed[e]) :
                   /\ observed[e][i].iteration = i
                   /\ observed[e][i].population = stored[e][i + 1]

\* Two generations were observed and the call has returned.
C6_Witness ==
    \E e \in Engines : Len(observed[e]) = 2 /\ pc[e] = "done"

\* C7: after every completed generation the stored population has exactly
\* population_size rows, whatever number of offspring evolve returned.
C7_RowsArePopulationSize ==
    \A e \in Engines :
        /\ \A i \in 2 .. Len(stored[e]) :
               Len(stored[e][i].genes) = context[e].population_size
        /\ completed[e] >= 1 =>
               Len(population[e].genes) = context[e].population_size

\* A generation completed on fewer offspring than num_offsprings.
C7_Witness ==
    \E e \in Engines :
        /\ pc[e] = "match"
        /\ next_result[e] = "Ok"
        /\ Len(offspring_genes[e].rows) < context[e].num_offsprings

\* C8 as stated: the combined matrix handed to the evaluator and to the
\* survival operator has exactly population_size + num_offsprings rows.
C8_CombinedRowsExact ==
    \A e \in Engines :
        /\ combined_genes[e] # None =>
               Len(combined_genes[e].rows) =
                   context[e].population_size + context[e].num_offsprings
        /\ evaluated_population[e] # None =>
               Len(evaluated_population[e].genes) =
                   context[e].population_size + context[e].num_offsprings

\* C8 amended: the combined matrix has population_size rows plus one row per
\* offspring evolve returned, between 1 and num_offsprings of them; the
\* evaluated population has as many; survival reduces it to population_size.
C8_CombinedRowsParentsPlusOffspring ==
    \A e \in Engines :
        /\ combined_genes[e] # None =>
               /\ Len(combined_genes[e].rows) =
                      context[e].population_size + Len(offspring_genes[e].rows)
               /\ Len(offspring_genes[e].rows) \in
                      1 .. context[e].num_offsprings
        /\ evaluated_population[e] # None =>
               Len(evaluated_population[e].genes) = Len(combined_genes[e].rows)
        /\ next_result[e] = "Ok" =>
               Len(population[e].genes) = context[e].population_size

\* The survival operator is about to reduce a combined population that holds
\* fewer than num_offsprings offspring.
C8_Witness ==
    \E e \in Engines :
        /\ pc[e] = "survive"
        /\ Len(offspring_genes[e].rows) < context[e].num_offsprings
        /\ Len(evaluated_population[e].genes) > context[e].population_size

\* C9: every stored, combined and evaluated matrix has num_vars columns; an
\* offspring matrix of another width is never concatenated, evaluated or
\* stored: the assertion fails first and the stored population stays.
C9_ColumnsStayNumVars ==
    \A e \in Engines :
        /\ \A i \in 1 .. Len(stored[e]) :
               stored[e][i].ncols = context[e].num_vars
        /\ Running(e) /\ pc[e] # "init" =>
               population[e].ncols = context[e].num_vars
        /\ combined_genes[e] # None =>
               /\ combined_genes[e].ncols = context[e].num_vars
               /\ offspring_genes[e].ncols = context[e].num_vars
        /\ evaluated_population[e] # None =>
               evaluated_population[e].ncols = context[e].num_vars
        /\ (/\ offspring_genes[e] # None
            /\ offspring_genes[e].ncols # context[e].num_vars) =>
               /\ pc[e] \in {"evaluate", "panicked"}
               /\ combined_genes[e] = None
               /\ evaluated_population[e] = None
               /\ population[e] = stored[e][Len(stored[e])]
               /\ pc[e] = "panicked" => result[e] = "assert_eq"

\* The second generation's offspring had the wrong width and the assertion
\* failed.
C9_Witness ==
    \E e \in Engines :
        /\ pc[e] = "panicked"
        /\ result[e] = "assert_eq"
        /\ completed[e] = 1

Ended(e) == pc[e] \in {"done", "panicked"}

\* C10: a call of run() never sees a set flag nor an observer and, unless it
\* stops early or fails, completes exactly num_iterations generations; and
\* it ends as a call of run_cancellable without observer whose flag is never
\* set, made on an engine in the same state with the same seed: same result,
\* same stored populations, same context.
C10_RunIsRunCancellableNeverSet ==
    \A a \in Engines :
        entry[a] = "run" =>
            /\ ~token[a]
            /\ callback[a] = None
            /\ observed[a] = <<>>
            /\ (pc[a] = "done" /\ outcome[a] \notin {"EarlyStopped", "Failed"})
                   => /\ outcome[a] = "Completed"
                      /\ completed[a] = context[a].num_iterations
            /\ \A b \in Engines :
                   (/\ entry[b] = "run_cancellable"
                    /\ callback[b] = None
                    /\ ~token[b]
                    /\ at_call[a] = at_call[b]
                    /\ Ended(a)
                    /\ Ended(b)) =>
                       /\ result[a] = result[b]
                       /\ outcome[a] = outcome[b]
                       /\ stored[a] = stored[b]
                       /\ population[a] = population[b]
                       /\ context[a] = context[b]

\* Both calls ran two generations to the end.
C10_Witness ==
    \E a, b \in Engines :
        /\ entry[a] = "run"
        /\ entry[b] = "run_cancellable"
        /\ ~token[b]
        /\ at_call[a] = at_call[b]
        /\ pc[a] = "done"
        /\ pc[b] = "done"
        /\ completed[a] = 2
        /\ completed[b] = 2

\* ------------------------------------------------------------------ C11
\* The state the engine keeps between calls.
EngineState(e) ==
    [population |-> population[e], context |-> context[e], rng |-> rng[e]]

\* C11: an observer that only looks changes nothing.  Handing it the
\* iteration leaves population, context and rng position as they were, and
\* a call without observer and a call with such an observer, made on engines
\* in the same state with the same seed and polling the same flag values,
\* are at the same point after the same number of generations and end with
\* the same result, the same populations, context and rng position.
C11_NoopObserverChangesNothing ==
    \A a, b \in Engines :
        (/\ entry[a] = "run_cancellable"
         /\ entry[b] = "run_cancellable"
         /\ callback[a] = None
         /\ callback[b] = [kind |-> "noop"]
         /\ at_call[a] = at_call[b]) =>
            /\ (pc[a] = "loop" /\ pc[b] = "loop"
                    /\ completed[a] = completed[b])
                   => /\ EngineState(a) = EngineState(b)
                      /\ stored[a] = stored[b]
            /\ (Ended(a) /\ Ended(b) /\ polled[a] = polled[b])
                   => /\ result[a] = result[b]
                      /\ outcome[a] = outcome[b]
                      /\ stored[a] = stored[b]
                      /\ EngineState(a) = EngineState(b)
                      /\ observed[a] = <<>>
                      /\ Len(observed[b]) = completed[b]

\* Both calls ran two generations to the end, the second one observed.
C11_Witness ==
    \E a, b \in Engines :
        /\ callback[a] = None
        /\ callback[b] = [kind |-> "noop"]
        /\ entry[a] = "run_cancellable"
        /\ at_call[a] = at_call[b]
        /\ polled[a] = polled[b]
        /\ pc[a] = "done"
        /\ pc[b] = "done"
        /\ completed[a] = 2
        /\ Len(observed[b]) = 2
        /\ population[a] = population[b]

\* ------------------------------------------------------------------ C12
\* C12: two calls made on engines in the same state, with the same seed and
\* the same observer, have stored the same population after Initialization
\* and after every generation both have completed, whatever the flag does;
\* between generations they are in the same state; and if both polled the
\* same flag values they end with the same result, the same outcome and the
\* same engine state.
C12_SameSeedSameRun ==
    \A a, b \in Engines :
        (/\ entry[a] = "run_cancellable"
         /\ entry[b] = "run_cancellable"
         /\ callback[a] = callback[b]
         /\ at_call[a] = at_call[b]) =>
            /\ \A i \in 1 .. Min(Len(stored[a]), Len(stored[b])) :
                   stored[a][i] = stored[b][i]
            /\ (pc[a] = "loop" /\ pc[b] = "loop"
                    /\ completed[a] = completed[b])
                   => EngineState(a) = EngineState(b)
            /\ (Ended(a) /\ Ended(b) /\ polled[a] = polled[b])
                   => /\ result[a] = result[b]
                      /\ outcome[a] = outcome[b]
                      /\ stored[a] = stored[b]
                      /\ EngineState(a) = EngineState(b)

\* Two calls were cancelled by their controllers after the first of two
\* generations, and both had changed the population.
C12_Witness ==
    /\ at_call[1] = at_call[2]
    /\ pc[1] = "done"
    /\ pc[2] = "done"
    /\ polled[1] = <<FALSE, TRUE>>
    /\ polled[2] = <<FALSE, TRUE>>
    /\ set_by[1] = "controller"
    /\ stored[1][2] # stored[1][1]
    /\ stored[2][2] = stored[1][2]

\* ------------------------------------------------------------------ C13
\* The test's observer: it sets the flag once handed an iteration >= m.
CancelAt(e) ==
    callback[e] \in {[kind |-> "cancel_at", m |-> m] : m \in 1 .. MaxIter}

\* C13: with an observer that sets the flag as soon as it is handed an
\* iteration >= m, m < num_iterations, nobody else setting the flag and no
\* generation failing, the call returns Ok, cancelled by the observer, and
\* the last iteration handed to the observer is at least m and less than
\* num_iterations.
C13_ObserverCancelsBeforeTheEnd ==
    \A e \in Engines :
        (/\ CancelAt(e)
         /\ callback[e].m < context[e].num_iterations
         /\ set_by[e] \notin {"caller", "controller"}
         /\ pc[e] = "done"
         /\ outcome[e] \notin {"EarlyStopped", "Failed"}) =>
            /\ result[e] = "Ok"
            /\ outcome[e] = "Cancelled"
            /\ set_by[e] = "observer"
            /\ observed[e] # <<>>
            /\ observed[e][Len(observed[e])].iteration >= callback[e].m
            /\ observed[e][Len(observed[e])].iteration
                   < context[e].num_iterations

\* The observer set the flag at iteration 1 of 2 and the call returned.
C13_Witness ==
    \E e \in Engines :
        /\ CancelAt(e)
        /\ callback[e].m = 1
        /\ context[e].num_iterations = 2
        /\ set_by[e] = "observer"
        /\ pc[e] = "done"
        /\ result[e] = "Ok"
        /\ Len(observed[e]) = 1
        /\ observed[e][1].iteration = 1

\* ------------------------------------------------------------------ C14
Stepping(e) ==
    pc[e] \in {"loop", "evolve", "evaluate", "survive", "match", "callback",
               "record"}

\* What the lifecycle says of a call apart from the set of its endings:
\* Initialization happens once and before any generation, at most
\* num_iterations generations are started, one at a time, and each ending
\* has its cause and its returned value.
Lifecycle(e) ==
    /\ outcome[e] = "NotStarted" <=> pc[e] = "idle"
    /\ outcome[e] = "Initializing" <=> pc[e] = "init"
    /\ outcome[e] = "Stepping" <=> Stepping(e)
    /\ pc[e] \in {"idle", "init"} =>
           /\ stored[e] = <<>>
           /\ started[e] = 0
           /\ polled[e] = <<>>
    /\ Stepping(e) => Len(stored[e]) = completed[e] + 1
    /\ pc[e] # "idle" =>
           rng[e] = at_call[e].rng + (IF pc[e] = "init" THEN 0 ELSE 1)
                       + started[e] - (IF pc[e] = "evolve" THEN 1 ELSE 0)
    /\ started[e] <= context[e].num_iterations
    /\ completed[e] <= started[e]
    /\ started[e] <= completed[e] + 1
    /\ outcome[e] = "Completed" =>
           /\ completed[e] = context[e].num_iterations
           /\ started[e] = completed[e]
           /\ \A i \in 1 .. Len(polled[e]) : ~polled[e][i]
    /\ outcome[e] = "Cancelled" =>
           /\ polled[e] # <<>>
           /\ polled[e][Len(polled[e])]
           /\ started[e] = completed[e]
    /\ outcome[e] = "EarlyStopped" =>
           /\ next_result[e] = "EmptyMatingResult"
           /\ started[e] = completed[e] + 1
    /\ outcome[e] = "Failed" =>
           \/ /\ result[e] = "Initialization"
              /\ stored[e] = <<>>
              /\ started[e] = 0
           \/ /\ result[e] \in {"Evolve", "Evaluator"}
              /\ next_result[e] = result[e]
              /\ started[e] = completed[e] + 1
    /\ result[e] = "Ok" <=>
           outcome[e] \in {"Completed", "Cancelled", "EarlyStopped"}
    /\ result[e] \in {"Initialization", "Evolve", "Evaluator"} <=>
           outcome[e] = "Failed"

\* C14 as stated: every call follows NotStarted -> Initializing -> Stepping*
\* -> exactly one of Completed, Cancelled, EarlyStopped, Failed, returning Ok
\* for the first three and Err for Failed.
C14_FourEndings ==
    \A e \in Engines :
        /\ Lifecycle(e)
        /\ outcome[e] \in {"NotStarted", "Initializing", "Stepping",
                            "Completed", "Cancelled", "EarlyStopped",
                            "Failed"}
        /\ pc[e] \in {"done", "panicked"} =>
               /\ outcome[e] \in {"Completed", "Cancelled", "EarlyStopped",
                                   "Failed"}
               /\ result[e] \in {"Ok", "Initialization", "Evolve",
                                  "Evaluator"}

\* C14, amended: every call follows NotStarted -> Initializing -> Stepping*
\* -> exactly one of Completed, Cancelled, EarlyStopped, Failed, or it
\* panics in a generation (the column assertion or the concatenation of
\* next) and returns nothing; Initialization happens once and first, at most
\* num_iterations generations are started, Completed follows exactly
\* num_iterations successful generations, EarlyStopped an
\* EmptyMatingResult, Failed another error; Ok is returned for Completed,
\* Cancelled and EarlyStopped and Err only for Failed.
C14_FourEndingsOrPanic ==
    \A e \in Engines :
        /\ Lifecycle(e)
        /\ outcome[e] \in {"NotStarted", "Initializing", "Stepping",
                            "Completed", "Cancelled", "EarlyStopped",
                            "Failed", "Panicked"}
        /\ pc[e] = "done" <=>
               outcome[e] \in {"Completed", "Cancelled", "EarlyStopped",
                               "Failed"}
        /\ pc[e] = "panicked" <=> outcome[e] = "Panicked"
        /\ outcome[e] = "Panicked" =>
               /\ result[e] \in {"assert_eq", "expect"}
               /\ started[e] = completed[e] + 1
               /\ Len(stored[e]) = completed[e] + 1

\* A call panicked in its second generation, after one successful one.
C14_Witness ==
    \E e \in Engines :
        /\ outcome[e] = "Panicked"
        /\ started[e] = 2
        /\ completed[e] = 1
        /\ Len(stored[e]) = 2

\* ------------------------------------------------------------------ C15
\* The generations of the current call whose iteration has been recorded:
\* all the completed ones but the one whose observer call or record is
\* still to come.
Recorded(e) ==
    IF pc[e] \in {"match", "callback", "record"} /\ next_result[e] = "Ok"
    THEN completed[e] - 1
    ELSE completed[e]

\* C15: context.current_iteration is written once per completed generation,
\* with the loop index, and at no other time: during and after a call it is
\* the value it had at the call while no generation has been recorded, and
\* g - 1 once g generations have; it is one less than the iteration last
\* handed to the observer, and num_iterations - 1 after a full run.
C15_CurrentIterationIsLoopIndex ==
    \A e \in Engines :
        pc[e] # "idle" =>
            /\ Recorded(e) = 0 =>
                   context[e].current_iteration
                       = at_call[e].context.current_iteration
            /\ Recorded(e) >= 1 =>
                   context[e].current_iteration = Recorded(e) - 1
            /\ Recorded(e) = current_iter[e]
            /\ (observed[e] # <<>> /\ Recorded(e) = Len(observed[e])) =>
                   context[e].current_iteration
                       = observed[e][Len(observed[e])].iteration - 1
            /\ (outcome[e] = "Completed"
                    /\ context[e].num_iterations >= 1) =>
                   context[e].current_iteration
                       = context[e].num_iterations - 1

\* A second call on an engine whose current_iteration was 1 was cancelled
\* by its observer at iteration 1 and left it 0.
C15_Witness ==
    \E e \in Engines :
        /\ pc[e] = "done"
        /\ at_call[e].context.current_iteration = 1
        /\ set_by[e] = "observer"
        /\ Len(observed[e]) = 1
        /\ observed[e][1].iteration = 1
        /\ context[e].current_iteration = 0

\* ------------------------------------------------------------------ C16
\* The generation the locals of next() belong to: the one started last, or
\* the one before it while the new one has not called evolve yet.
LocalsOf(e) == IF pc[e] = "evolve" THEN started[e] - 1 ELSE started[e]

\* C16: generations are strictly sequential and each runs evolve, then
\* concatenate (the rows of the stored population first, then the
\* offspring), then evaluate, then survival with population_size, then the
\* replacement of the stored population; a generation starts only when all
\* earlier ones have stored their survivors, and its evolve reads exactly
\* the population stored by the generation before it, or by Initialization.
C16_StagesInOrderOnStoredPopulation ==
    \A e \in Engines :
        LET g == LocalsOf(e)
            parents == stored[e][g]
        IN
        /\ pc[e] \in {"evolve", "evaluate", "survive"} =>
               /\ started[e] = completed[e] + 1
               /\ Len(stored[e]) = started[e]
               /\ population[e] = stored[e][started[e]]
        /\ pc[e] = "evaluate" =>
               /\ offspring_genes[e] # None
               /\ combined_genes[e] = None
               /\ evaluated_population[e] = None
        /\ pc[e] = "survive" =>
               /\ combined_genes[e] # None
               /\ evaluated_population[e] # None
        /\ offspring_genes[e] # None =>
               offspring_genes[e] =
                   evolve(parents, context[e].num_offsprings, MaxAttempts,
                          stream[rng[e]]).value
        /\ combined_genes[e] # None =>
               /\ offspring_genes[e] # None
               /\ combined_genes[e] =
                      Matrix(parents.genes \o offspring_genes[e].rows,
                             parents.ncols)
        /\ evaluated_population[e] # None =>
               /\ combined_genes[e] # None
               /\ evaluated_population[e] = Population(combined_genes[e])
        /\ (next_result[e] = "Ok" /\ stored[e] # <<>>) =>
               /\ completed[e] = g
               /\ Len(stored[e]) = g + 1
               /\ stored[e][g + 1] =
                      operate(evaluated_population[e],
                              context[e].population_size)
               /\ population[e] = stored[e][g + 1]

\* The second generation has stored its survivors; its parents were the
\* survivors of the first, which differ from the initial population, and
\* the order of parents and offspring in the combined matrix matters.
C16_Witness ==
    \E e \in Engines :
        /\ pc[e] = "match"
        /\ next_result[e] = "Ok"
        /\ completed[e] = 2
        /\ stored[e][2] # stored[e][1]
        /\ combined_genes[e].rows
               # offspring_genes[e].rows \o stored[e][2].genes

\* ------------------------------------------------------------------ C17
FailedGeneration(e) ==
    \/ next_result[e] \in {"EmptyMatingResult", "Evolve", "Evaluator"}
    \/ pc[e] = "panicked"

\* C17: the stored population is replaced only at the end of a successful
\* generation: once Initialization has stored one, it is always the one
\* stored by Initialization or by the last successful generation.  When a
\* generation fails (EmptyMatingResult or another error of evolve or
\* evaluate, or a panic) the stored population is the one that generation
\* started from, current_iteration is what the generations before it left,
\* and the observer has been invoked for those only.
C17_FailedGenerationLeavesNoTrace ==
    \A e \in Engines :
        /\ stored[e] # <<>> =>
               /\ Len(stored[e]) = completed[e] + 1
               /\ population[e] = stored[e][completed[e] + 1]
        /\ FailedGeneration(e) =>
               /\ started[e] = completed[e] + 1
               /\ population[e] = stored[e][started[e]]
               /\ current_iter[e] = completed[e]
               /\ context[e].current_iteration =
                      IF completed[e] = 0
                      THEN at_call[e].context.current_iteration
                      ELSE completed[e] - 1
               /\ Len(observed[e]) =
                      IF callback[e] = None THEN 0 ELSE completed[e]
               /\ \A i \in 1 .. Len(observed[e]) :
                      /\ observed[e][i].iteration = i
                      /\ observed[e][i].population = stored[e][i + 1]

\* The second generation of a second call failed in evaluate and the error
\* was returned: the engine holds the survivors of the first generation,
\* the observer saw that one only, and current_iteration, 1 at the call, is
\* 0.
C17_Witness ==
    \E e \in Engines :
        /\ pc[e] = "done"
        /\ result[e] = "Evaluator"
        /\ completed[e] = 1
        /\ Len(observed[e]) = 1
        /\ population[e] = stored[e][2]
        /\ stored[e][2] # stored[e][1]
        /\ at_call[e].context.current_iteration = 1
        /\ context[e].current_iteration = 0

\* ------------------------------------------------------------------ C18
\* The population Initialization makes for the current call of engine e.
Initial(e) ==
    initialize(evaluator[e], at_call[e].context, stream[at_call[e].rng + 1])

\* C18: a call that completes no generation because the flag was set when
\* it was made, because num_iterations is 0, or because its first
\* generation ended in EmptyMatingResult, has still run Initialization and
\* stored the initial population, returns Ok, has not invoked the observer
\* and leaves the context, current_iteration included, as it was before the
\* call.
C18_ZeroGenerationsStillInitializes ==
    \A e \in Engines :
        /\ (/\ pc[e] = "done"
            /\ result[e] # "Initialization"
            /\ \/ set_by[e] = "caller" /\ context[e].num_iterations > 0
               \/ context[e].num_iterations = 0
               \/ outcome[e] = "EarlyStopped" /\ completed[e] = 0) =>
               /\ result[e] = "Ok"
               /\ completed[e] = 0
               /\ outcome[e] =
                      IF context[e].num_iterations = 0 THEN "Completed"
                      ELSE IF set_by[e] = "caller" THEN "Cancelled"
                      ELSE "EarlyStopped"
        /\ (pc[e] = "done" /\ result[e] = "Ok" /\ completed[e] = 0) =>
               /\ Initial(e).ok
               /\ stored[e] = <<Initial(e).value>>
               /\ population[e] = Initial(e).value
               /\ rng[e] = at_call[e].rng + 1 + started[e]
               /\ observed[e] = <<>>
               /\ context[e] = at_call[e].context

\* A second call, made with the flag set on an engine whose
\* current_iteration was 1 and with an observer, returned Ok with a fresh
\* initial population, other than the one the first call left.
C18_Witness ==
    \E e \in Engines :
        /\ pc[e] = "done"
        /\ set_by[e] = "caller"
        /\ callback[e] # None
        /\ result[e] = "Ok"
        /\ completed[e] = 0
        /\ context[e].current_iteration = 1
        /\ at_call[e].population # None
        /\ population[e] # at_call[e].population

\* ------------------------------------------------------------------ C19
\* C19: every call whose Initialization succeeds stores the freshly
\* initialized population before the first generation, so the parents of
\* the first generation are that population and never one passed to the
\* constructor or left by an earlier call; and the engine never writes the
\* flag: it is set only if the caller passed it set, or the controller or
\* the observer set it during the call, and a call made with the flag set
\* starts no generation.
C19_FreshPopulationAndFlagUntouched ==
    \A e \in Engines :
        /\ stored[e] # <<>> =>
               /\ Initial(e).ok
               /\ stored[e][1] = Initial(e).value
               /\ completed[e] = 0 => population[e] = Initial(e).value
        /\ (pc[e] # "idle" /\ stored[e] = <<>>) =>
               /\ population[e] = at_call[e].population
               /\ started[e] = 0
        /\ (LocalsOf(e) = 1 /\ offspring_genes[e] # None) =>
               offspring_genes[e] =
                   evolve(Initial(e).value, context[e].num_offsprings,
                          MaxAttempts, stream[rng[e]]).value
        /\ token[e] <=> set_by[e] # "none"
        /\ set_by[e] = "caller" =>
               /\ started[e] = 0
               /\ completed[e] = 0
               /\ \A i \in 1 .. Len(polled[e]) : polled[e][i]

\* The first generation of a call on an engine that held another
\* population has bred offspring, and not the offspring that population
\* would have given.
C19_Witness ==
    \E e \in Engines :
        /\ pc[e] = "match"
        /\ next_result[e] = "Ok"
        /\ started[e] = 1
        /\ at_call[e].population # None
        /\ stored[e][1] # at_call[e].population
        /\ offspring_genes[e] #
               evolve(at_call[e].population, context[e].num_offsprings,
                      MaxAttempts, stream[rng[e]]).value

\* ------------------------------------------------------------------ C20
\* C20 as stated: every call eventually returns Ok or Err, whether or not
\* the flag is ever set, after at most num_iterations generations.
C20_EveryCallReturns ==
    /\ [](\A e \in Engines : started[e] <= context[e].num_iterations)
    /\ \A e \in Engines : (pc[e] = "init") ~> (pc[e] = "done")

\* C20, amended: every call eventually ends, whether or not the flag is
\* ever set: it returns Ok or Err, or it panics in a generation; and it
\* starts at most num_iterations generations.
C20_EveryCallEnds ==
    /\ [](\A e \in Engines : started[e] <= context[e].num_iterations)
    /\ \A e \in Engines : (pc[e] = "init") ~> Ended(e)

\* A call of run_cancellable returned after two generations with the flag
\* never set.
C20_Witness ==
    \E e \in Engines :
        /\ entry[e] = "run_cancellable"
        /\ pc[e] = "done"
        /\ set_by[e] = "none"
        /\ ~token[e]
        /\ polled[e] = <<FALSE, FALSE>>
        /\ completed[e] = 2
        /\ context[e].num_iterations = 2

====
